---------------------------- MODULE Spec2Model ----------------------------
(***************************************************************************)
(* vitepress-plugin-d2: the configuration parser (config-parser.ts) and    *)
(* the text helpers it uses (d2-helper.ts): removeCommentsFromD2,          *)
(* findBlockBounds, getD2ConfigContent, hasComposition.                    *)
(*                                                                         *)
(* Texts are sequences of one-character strings.  Positions are the        *)
(* source's 0-based offsets: At(code, k) is the source's code[k].          *)
(***************************************************************************)
EXTENDS Integers, Sequences, FiniteSets, TLC

VARIABLES
    pending,              \* the diagram blocks still to be handed to parseConfig
    defaultConfig,        \* the Config object every call shares (d2's closure)
    installedConfig,      \* the value of defaultConfig when d2 was installed
    pc,                   \* "idle" | "scan" | "done": where the current call is
    content,              \* parseConfig's argument
    diagramConfig,        \* parseAndConvertConfig's config
    code,                 \* parseAndConvertConfig's code (header removed)
    i,                    \* removeCommentsFromD2: read position
    result,               \* removeCommentsFromD2: text emitted so far
    inSingleQuoteString,  \* removeCommentsFromD2: quote state
    inDoubleQuoteString,  \* removeCommentsFromD2: quote state
    cleanedCode,          \* removeCommentsFromD2's return value
    rendered              \* what the calls so far returned: {config, code} each

vars == <<pending, defaultConfig, installedConfig, pc, content, diagramConfig,
          code, i, result, inSingleQuoteString, inDoubleQuoteString,
          cleanedCode, rendered>>

(***************************************************************************)
(* Bounds of the model.                                                    *)
(***************************************************************************)
MaxLen == 5
MaxHeaderTokens == 5
MaxCompTokens == 4
MaxCalls == 2
MaxCommentTokens == 5
MaxBlockTokens == 5
MaxInlineLines == 2

(***************************************************************************)
(* Text primitives (JavaScript String methods).                            *)
(***************************************************************************)
Chars(s) == [k \in 1..Len(s) |-> SubSeq(s, k, k)]

DQ == "\""
SQ == "'"
NL == "\n"
BS == "\\"
TripleQuote == <<DQ, DQ, DQ>>

\* code[k]; "" where the source reads undefined or substitutes ""
At(s, k) == IF k >= 0 /\ k < Len(s) THEN s[k + 1] ELSE ""

\* s.substring(a, b) for 0 <= a, b
Substring(s, a, b) ==
    LET lo == IF a < b THEN a ELSE b
        hi == IF a < b THEN b ELSE a
        h2 == IF hi > Len(s) THEN Len(s) ELSE hi
    IN  IF lo >= h2 THEN <<>> ELSE SubSeq(s, lo + 1, h2)

SetMin(S) == CHOOSE x \in S : \A y \in S : x <= y
SetMax(S) == CHOOSE x \in S : \A y \in S : x >= y

\* the pattern `pat` occurs in s at offset k
OccursAt(s, pat, k) ==
    /\ k >= 0
    /\ k + Len(pat) <= Len(s)
    /\ \A j \in 1..Len(pat) : s[k + j] = pat[j]

\* s.indexOf(pat, from): -1 when absent
IndexOfFrom(s, pat, from) ==
    LET hits == {k \in from..(Len(s) - Len(pat)) : OccursAt(s, pat, k)}
    IN  IF hits = {} THEN -1 ELSE SetMin(hits)

IndexOf(s, pat) == IndexOfFrom(s, pat, 0)

StartsWith(s, pat) == OccursAt(s, pat, 0)
EndsWith(s, pat) == OccursAt(s, pat, Len(s) - Len(pat))
Includes(s, pat) == IndexOf(s, pat) # -1

\* the regular expression class \s, on the characters of the model
IsSpace(c) == c \in {" ", "\t", "\n", "\r"}
\* the characters the scanner's indentation loops skip: " " and "\t"
IsBlank(c) == c \in {" ", "\t"}
\* the regular expression class \w
WordChars ==
    {"a", "b", "c", "d", "e", "f", "g", "h", "i", "j", "k", "l", "m", "n",
     "o", "p", "q", "r", "s", "t", "u", "v", "w", "x", "y", "z",
     "A", "B", "C", "D", "E", "F", "G", "H", "I", "J", "K", "L", "M", "N",
     "O", "P", "Q", "R", "S", "T", "U", "V", "W", "X", "Y", "Z",
     "0", "1", "2", "3", "4", "5", "6", "7", "8", "9", "_"}
IsWord(c) == c \in WordChars

\* s.trim()
Trim(s) ==
    LET keep == {k \in 1..Len(s) : ~IsSpace(s[k])}
    IN  IF keep = {} THEN <<>> ELSE SubSeq(s, SetMin(keep), SetMax(keep))

\* s.replace(/\s+$/, "")
TrimEnd(s) ==
    LET keep == {k \in 1..Len(s) : ~IsSpace(s[k])}
    IN  IF keep = {} THEN <<>> ELSE SubSeq(s, 1, SetMax(keep))

\* first offset >= k whose character does not satisfy the blank test
SkipBlanks(s, k) ==
    LET stop == {j \in k..Len(s) : j = Len(s) \/ ~IsBlank(At(s, j))}
    IN  SetMin(stop)

\* first offset >= k holding a newline, or the length of s
SkipToNewline(s, k) ==
    LET stop == {j \in k..Len(s) : j = Len(s) \/ At(s, j) = NL}
    IN  SetMin(stop)

\* s.split(sep) for a one-character separator
RECURSIVE SplitFrom(_, _, _)
SplitFrom(s, sep, from) ==
    LET p == IndexOfFrom(s, <<sep>>, from)
    IN  IF p = -1
        THEN <<Substring(s, from, Len(s))>>
        ELSE <<Substring(s, from, p)>> \o SplitFrom(s, sep, p + 1)

Split(s, sep) == SplitFrom(s, sep, 0)

\* s.split(/\s+/): the pieces between maximal runs of whitespace
RECURSIVE SplitSpaceFrom(_, _)
SplitSpaceFrom(s, from) ==
    LET ws == {k \in from..(Len(s) - 1) : IsSpace(At(s, k))}
    IN  IF ws = {}
        THEN <<Substring(s, from, Len(s))>>
        ELSE LET p == SetMin(ws)
                 q == SetMin({j \in p..Len(s) : j = Len(s) \/ ~IsSpace(At(s, j))})
             IN  <<Substring(s, from, p)>> \o SplitSpaceFrom(s, q)

SplitSpace(s) == SplitSpaceFrom(s, 0)

(***************************************************************************)
(* removeCommentsFromD2 (d2-helper.ts): the scanner.                       *)
(***************************************************************************)

\* offset of the last newline before offset k, or -1 (the prevNewlinePos loop)
PrevNewlinePos(s, k) ==
    LET nls == {j \in 0..(k - 1) : At(s, j) = NL}
    IN  IF nls = {} THEN -1 ELSE SetMax(nls)

\* startsAtLineStart / isLineComment: the marker at offset k leads its line
AtLineStart(s, k) ==
    IF k = 0 \/ At(s, k - 1) = NL
    THEN TRUE
    ELSE LET prevNewlinePos == PrevNewlinePos(s, k)
         IN  IF prevNewlinePos >= 0
             THEN Trim(Substring(s, prevNewlinePos + 1, k)) = <<>>
             ELSE FALSE

\* the condition of the first if: a double quote that is no part of a """
IsPlainDoubleQuote(s, k) ==
    /\ At(s, k) = DQ
    /\ ~(k >= 2 /\ At(s, k - 1) = DQ /\ At(s, k - 2) = DQ)
    /\ ~(k + 2 < Len(s) /\ At(s, k + 1) = DQ /\ At(s, k + 2) = DQ)

\* the quote at offset k follows a backslash
IsEscaped(s, k) == k > 0 /\ At(s, k - 1) = BS

\* what the unterminated-delimiter fallback appends to result
UnterminatedOpener == <<DQ, DQ>>

\* a plausible slip: the fallback puts the read position back on the opener
ResumeAtOpener(startPos) == startPos - 3

\* the read position the unterminated-delimiter fallback resumes at (i = startPos)
ResumeAfterUnterminated(startPos) == startPos

\* the scan for the closing """ from offset k: its offset, or -1
FindClosing(s, k) == IndexOfFrom(s, TripleQuote, k)

\* read position after a removed block comment that ended just before offset k
AfterBlockComment(s, k, startsAtLineStart) ==
    IF k < Len(s) /\ At(s, k) = NL
    THEN IF startsAtLineStart THEN SkipBlanks(s, k + 1) ELSE k + 1
    ELSE k

\* one iteration of the while loop, on the scanner state
\* st = [i, result, inSingleQuoteString, inDoubleQuoteString]
ScanStepOp(s, st) ==
    LET k == st.i
        currentChar == At(s, k)
        emit == [st EXCEPT !.i = k + 1, !.result = st.result \o <<currentChar>>]
    IN  IF IsPlainDoubleQuote(s, k) /\ ~st.inSingleQuoteString
        THEN IF IsEscaped(s, k)
             THEN emit
             ELSE [emit EXCEPT !.inDoubleQuoteString = ~st.inDoubleQuoteString]
        ELSE IF currentChar = SQ /\ ~st.inDoubleQuoteString
        THEN IF IsEscaped(s, k)
             THEN emit
             ELSE [emit EXCEPT !.inSingleQuoteString = ~st.inSingleQuoteString]
        ELSE IF /\ ~st.inSingleQuoteString
                /\ ~st.inDoubleQuoteString
                /\ OccursAt(s, TripleQuote, k)
        THEN LET startPos == k + 3
                 close == FindClosing(s, startPos)
             IN  IF close # -1
                 THEN [st EXCEPT !.i = AfterBlockComment(s, close + 3, AtLineStart(s, k))]
                 ELSE [st EXCEPT !.i = ResumeAfterUnterminated(startPos),
                                 !.result = st.result \o UnterminatedOpener]
        ELSE IF /\ ~st.inSingleQuoteString
                /\ ~st.inDoubleQuoteString
                /\ currentChar = "#"
        THEN LET eol == SkipToNewline(s, k)
             IN  IF AtLineStart(s, k)
                 THEN IF eol < Len(s)
                      THEN [st EXCEPT !.i = SkipBlanks(s, eol + 1)]
                      ELSE [st EXCEPT !.i = eol]
                 ELSE IF eol < Len(s)
                      THEN [st EXCEPT !.i = eol + 1, !.result = st.result \o <<NL>>]
                      ELSE [st EXCEPT !.i = eol]
        ELSE emit

\* first offset >= k that holds no whitespace (a greedy \s*)
SkipSpaces(s, k) == SetMin({j \in k..Len(s) : j = Len(s) \/ ~IsSpace(At(s, j))})

\* first offset >= k that holds a blank, or the length of s
NextBlank(s, k) == SetMin({j \in k..Len(s) : j = Len(s) \/ IsBlank(At(s, j))})

\* result.replace(/[ \t]+(\n)/g, "$1") from offset k: a run of blanks that ends
\* at a newline goes, every other character stays
RECURSIVE StripLineEnds(_, _)
StripLineEnds(s, k) ==
    LET b == NextBlank(s, k)
        e == SkipBlanks(s, b)
    IN  IF b >= Len(s)
        THEN Substring(s, k, Len(s))
        ELSE IF e < Len(s) /\ At(s, e) = NL
             THEN Substring(s, k, b) \o StripLineEnds(s, e)
             ELSE Substring(s, k, e) \o StripLineEnds(s, e)

\* result.replace(/\n\s*\n/g, "\n") from offset k: a newline, the whitespace after
\* it up to the last newline of that whitespace run, become one newline
RECURSIVE CollapseBlankLines(_, _)
CollapseBlankLines(s, k) ==
    LET b == SkipToNewline(s, k)
        e == SkipSpaces(s, b + 1)
        nls == {j \in (b + 1)..(e - 1) : At(s, j) = NL}
    IN  IF b >= Len(s)
        THEN Substring(s, k, Len(s))
        ELSE IF nls = {}
             THEN Substring(s, k, b + 1) \o CollapseBlankLines(s, b + 1)
             ELSE Substring(s, k, b + 1) \o CollapseBlankLines(s, SetMax(nls) + 1)

\* the three replace calls that end removeCommentsFromD2
Normalize(r) == CollapseBlankLines(StripLineEnds(TrimEnd(r), 0), 0)

ScanInit == [i |-> 0, result |-> <<>>,
             inSingleQuoteString |-> FALSE, inDoubleQuoteString |-> FALSE]

RECURSIVE ScanLoop(_, _)
ScanLoop(s, st) == IF st.i < Len(s) THEN ScanLoop(s, ScanStepOp(s, st)) ELSE st

removeCommentsFromD2(s) == Normalize(ScanLoop(s, ScanInit).result)

(***************************************************************************)
(* Configuration values.  A field of a Config object is one of             *)
(*   unset      no own property                                            *)
(*   undefined  an own property holding undefined                          *)
(*   bool, num, nan (the number NaN), str (a string or a string enum)      *)
(* kept in one record shape so that any two values can be compared.        *)
(***************************************************************************)
Unset == [kind |-> "unset", n |-> 0, s |-> <<>>]
Undefined == [kind |-> "undefined", n |-> 0, s |-> <<>>]
Bool(b) == [kind |-> "bool", n |-> IF b THEN 1 ELSE 0, s |-> <<>>]
Num(k) == [kind |-> "num", n |-> k, s |-> <<>>]
NaN == [kind |-> "nan", n |-> 0, s |-> <<>>]
Str(t) == [kind |-> "str", n |-> 0, s |-> t]

\* v == null / v != null
IsNull(v) == v.kind \in {"unset", "undefined"}

\* interface Config
Fields ==
    {"onlyConvertMarkedImage", "forceAppendix", "layout", "theme", "darkTheme",
     "pad", "animateInterval", "timeout", "sketch", "center", "scale",
     "target", "stdoutFormat", "directory"}

\* the object literal {}
EmptyConfig == [f \in Fields |-> Unset]

\* { ...a, ...b }: every own property of b, undefined ones included, replaces a's
Spread(a, b) == [f \in Fields |-> IF b[f].kind # "unset" THEN b[f] ELSE a[f]]

(***************************************************************************)
(* Conversions.                                                            *)
(***************************************************************************)
LowerLetters == Chars("abcdefghijklmnopqrstuvwxyz")
UpperLetters == Chars("ABCDEFGHIJKLMNOPQRSTUVWXYZ")
Digits == Chars("0123456789")

PosIn(seq, c) ==
    LET hits == {k \in 1..Len(seq) : seq[k] = c}
    IN  IF hits = {} THEN 0 ELSE SetMin(hits)

UpperChar(c) == IF PosIn(LowerLetters, c) # 0 THEN UpperLetters[PosIn(LowerLetters, c)] ELSE c
LowerChar(c) == IF PosIn(UpperLetters, c) # 0 THEN LowerLetters[PosIn(UpperLetters, c)] ELSE c

\* s.toUpperCase()
ToUpperCase(t) == [k \in 1..Len(t) |-> UpperChar(t[k])]

IsDigit(c) == PosIn(Digits, c) # 0
DigitValue(c) == PosIn(Digits, c) - 1

\* the value of a run of decimal digits
RECURSIVE DecimalValue(_)
DecimalValue(t) ==
    IF t = <<>> THEN 0
    ELSE 10 * DecimalValue(SubSeq(t, 1, Len(t) - 1)) + DigitValue(t[Len(t)])

\* the longest prefix of t made of digits
DigitPrefix(t) ==
    LET stop == {j \in 0..Len(t) : j = Len(t) \/ ~IsDigit(At(t, j))}
    IN  Substring(t, 0, SetMin(stop))

\* parseInt(t, 10): leading whitespace, a sign, then the leading digits; NaN without
parseInt(t) ==
    LET u == Trim(t)
        neg == Len(u) > 0 /\ u[1] = "-"
        body == IF Len(u) > 0 /\ u[1] \in {"-", "+"} THEN Tail(u) ELSE u
        ds == DigitPrefix(body)
    IN  IF ds = <<>> THEN NaN
        ELSE Num(IF neg THEN 0 - DecimalValue(ds) ELSE DecimalValue(ds))

\* parseFloat(t), on texts with no ".", exponent or "Infinity": the leading integer
parseFloat(t) == parseInt(t)

\* Number(t), on texts with no ".", exponent, radix prefix or "Infinity":
\* the whole trimmed text must be a signed run of digits; "" is 0
ToNumber(t) ==
    LET u == Trim(t)
        neg == Len(u) > 0 /\ u[1] = "-"
        body == IF Len(u) > 0 /\ u[1] \in {"-", "+"} THEN Tail(u) ELSE u
    IN  IF u = <<>> THEN Num(0)
        ELSE IF body # <<>> /\ DigitPrefix(body) = body
        THEN Num(IF neg THEN 0 - DecimalValue(body) ELSE DecimalValue(body))
        ELSE NaN

\* enum Layout: Layout[key], undefined when key is no enumerator
LayoutLookup(key) ==
    IF key = Chars("DAGRE") THEN Str(Chars("dagre"))
    ELSE IF key = Chars("ELK") THEN Str(Chars("elk"))
    ELSE IF key = Chars("TALA") THEN Str(Chars("tala"))
    ELSE Undefined

\* enum FileType: FileType[key], undefined when key is no enumerator
FileTypeLookup(key) ==
    IF key = Chars("SVG") THEN Str(Chars("svg"))
    ELSE IF key = Chars("BASE64_SVG") THEN Str(Chars("base64_svg"))
    ELSE IF key = Chars("PNG") THEN Str(Chars("png"))
    ELSE IF key = Chars("GIF") THEN Str(Chars("gif"))
    ELSE Undefined

TrueText == Chars("true")

(***************************************************************************)
(* parseAndConvertConfig (config-parser.ts): the directive header.         *)
(***************************************************************************)
HeaderOpen == <<DQ, DQ, DQ, NL>>

\* configRegex /^"""\n([\s\S]*?)"""\s*\n?/ on code: the offset of the closing
\* """ of the match, or -1 when the regular expression does not match
HeaderClose(c) == IF StartsWith(c, HeaderOpen) THEN IndexOfFrom(c, TripleQuote, 4) ELSE -1

\* match[1]
HeaderContent(c) == Substring(c, 4, HeaderClose(c))

\* the offset where the match ends: """ and then \s*
HeaderEnd(c) ==
    LET from == HeaderClose(c) + 3
    IN  SetMin({j \in from..Len(c) : j = Len(c) \/ ~IsSpace(At(c, j))})

\* a plausible slip: only !match is tested, an empty match[1] is parsed too
HeaderParsedWhenEmpty(c) == HeaderClose(c) # -1

\* !(!match || !match[1]): the lines of the header are parsed
HeaderParsed(c) == HeaderClose(c) # -1 /\ HeaderContent(c) # <<>>

\* code.replace(configRegex, "").trim()
RemoveHeader(c) == Trim(Substring(c, HeaderEnd(c), Len(c)))

\* the pieces of a directive line, each trimmed: [key, value] are the first two
LineParts(line) ==
    LET raw == IF Includes(Trim(line), <<"=">>) THEN Split(line, "=") ELSE SplitSpace(line)
    IN  [k \in 1..Len(raw) |-> Trim(raw[k])]

\* the body of the for loop over configLines: the userConfig entry of a line,
\* <<key, value>>, or <<>> for a line the loop skips
LineEntry(line) ==
    LET trimmedLine == Trim(line)
        parts == LineParts(line)
        key == parts[1]
    IN  IF trimmedLine = <<>> \/ ~StartsWith(trimmedLine, <<"-", "-">>)
        THEN <<>>
        ELSE IF Includes(trimmedLine, <<"=">>)
        THEN <<key, parts[2]>>
        ELSE <<key, IF Len(parts) >= 2 /\ parts[2] # <<>> THEN parts[2] ELSE TrueText>>

\* userConfig after the loop: the entries in line order
UserConfig(c) ==
    LET configLines == Split(Trim(HeaderContent(c)), NL)
    IN  SelectSeq([k \in 1..Len(configLines) |-> LineEntry(configLines[k])],
                  LAMBDA e : e # <<>>)

HasKey(userConfig, key) == \E k \in 1..Len(userConfig) : userConfig[k][1] = key

\* userConfig[key]: the last assignment wins
ValueOf(userConfig, key) ==
    userConfig[SetMax({k \in 1..Len(userConfig) : userConfig[k][1] = key})][2]

\* the switch over the keys of userConfig: the value a key gives its field
Coerce(field, v) ==
    CASE field \in {"forceAppendix", "sketch", "center"} -> Bool(v = TrueText)
      [] field = "layout" -> LayoutLookup(ToUpperCase(v))
      [] field = "stdoutFormat" -> FileTypeLookup(ToUpperCase(v))
      [] field \in {"theme", "darkTheme"} -> IF ToNumber(v).kind = "nan" THEN Unset ELSE ToNumber(v)
      [] field \in {"pad", "animateInterval", "timeout"} -> parseInt(v)
      [] field = "scale" -> parseFloat(v)
      [] field \in {"target", "directory"} -> Str(v)

\* the case labels of the switch
DirectiveKey(field) ==
    CASE field = "forceAppendix" -> Chars("--force-appendix")
      [] field = "layout" -> Chars("--layout")
      [] field = "theme" -> Chars("--theme")
      [] field = "darkTheme" -> Chars("--dark-theme")
      [] field = "pad" -> Chars("--pad")
      [] field = "animateInterval" -> Chars("--animate-interval")
      [] field = "timeout" -> Chars("--timeout")
      [] field = "sketch" -> Chars("--sketch")
      [] field = "center" -> Chars("--center")
      [] field = "scale" -> Chars("--scale")
      [] field = "target" -> Chars("--target")
      [] field = "stdoutFormat" -> Chars("--stdout-format")
      [] field = "directory" -> Chars("--directory")
      [] OTHER -> <<>>

DirectiveConfig(userConfig) ==
    [f \in Fields |->
        IF DirectiveKey(f) # <<>> /\ HasKey(userConfig, DirectiveKey(f))
        THEN Coerce(f, ValueOf(userConfig, DirectiveKey(f)))
        ELSE Unset]

parseAndConvertConfig(c) ==
    IF ~HeaderParsed(c)
    THEN [config |-> EmptyConfig, code |-> c]
    ELSE [config |-> DirectiveConfig(UserConfig(c)), code |-> RemoveHeader(c)]

(***************************************************************************)
(* findBlockBounds, getD2ConfigContent, hasComposition (d2-helper.ts).     *)
(***************************************************************************)

\* first offset >= k that holds a brace, or the length of s
NextBrace(s, k) == SetMin({j \in k..Len(s) : j = Len(s) \/ At(s, j) \in {"{", "}"}})

\* the while loop of findBlockBounds from offset k; the iterations over a
\* character that is no brace only advance the offset
RECURSIVE FindBlockLoop(_, _, _, _)
FindBlockLoop(s, k, braceCount, blockStart) ==
    LET b == NextBrace(s, k)
    IN  IF b >= Len(s)
        THEN [start |-> blockStart, end |-> -1]
        ELSE IF At(s, b) = "{"
        THEN FindBlockLoop(s, b + 1, braceCount + 1,
                           IF braceCount = 0 THEN b + 1 ELSE blockStart)
        ELSE IF braceCount - 1 = 0 /\ blockStart # -1
        THEN [start |-> blockStart, end |-> b]
        ELSE FindBlockLoop(s, b + 1, braceCount - 1, blockStart)

findBlockBounds(s, startIndex) == FindBlockLoop(s, startIndex, 0, -1)

\* the body of the block that follows the first occurrence of marker, or ""
BlockAfter(s, marker) ==
    LET at == IndexOf(s, marker)
        b == findBlockBounds(s, at)
    IN  IF at = -1 THEN <<>>
        ELSE IF b.start = -1 \/ b.end = -1 THEN <<>>
        ELSE Substring(s, b.start, b.end)

getD2ConfigContent(s) == BlockAfter(BlockAfter(s, Chars("vars:")), Chars("d2-config:"))

CompositionKeywords == {Chars("layers"), Chars("scenarios"), Chars("steps")}

\* the flag i: kw matches at offset k whatever the case of the letters
KeywordAt(s, kw, k) ==
    /\ k + Len(kw) <= Len(s)
    /\ \A j \in 1..Len(kw) : LowerChar(s[k + j]) = kw[j]

\* a plausible slip: the regular expression without its \b
NoWordBoundary(s, k) == TRUE

\* the assertion \b at offset k, before a word character
WordBoundary(s, k) == k = 0 \/ ~IsWord(At(s, k - 1))

\* \s*:\s*\{ matches at offset k
ColonBraceAt(s, k) ==
    LET colon == SkipSpaces(s, k)
    IN  /\ At(s, colon) = ":"
        /\ At(s, SkipSpaces(s, colon + 1)) = "{"

\* /\b(layers|scenarios|steps)\s*:\s*\{/i.test(s)
hasComposition(s) ==
    \E k \in 0..(Len(s) - 1) :
        /\ WordBoundary(s, k)
        /\ \E kw \in CompositionKeywords :
              KeywordAt(s, kw, k) /\ ColonBraceAt(s, k + Len(kw))

(***************************************************************************)
(* parseAndConvertD2Config, stripQuotes, convertD2ConfigToConfig,          *)
(* parseConfig (config-parser.ts).                                         *)
(***************************************************************************)
stripQuotes(t) ==
    IF Len(t) < 2 THEN t
    ELSE IF \/ (StartsWith(t, <<DQ>>) /\ EndsWith(t, <<DQ>>))
            \/ (StartsWith(t, <<SQ>>) /\ EndsWith(t, <<SQ>>))
    THEN Substring(t, 1, Len(t) - 1)
    ELSE t

\* interface D2Config, the fields the parser reads
D2Fields == {"layoutEngine", "themeID", "darkThemeID", "sketch", "center", "pad"}

\* the case labels of the switch in parseAndConvertD2Config
D2Key(field) ==
    CASE field = "layoutEngine" -> Chars("layout-engine")
      [] field = "themeID" -> Chars("theme-id")
      [] field = "darkThemeID" -> Chars("dark-theme-id")
      [] field = "sketch" -> Chars("sketch")
      [] field = "center" -> Chars("center")
      [] field = "pad" -> Chars("pad")

D2Coerce(field, v) ==
    CASE field = "layoutEngine" -> Str(stripQuotes(v))
      [] field \in {"themeID", "darkThemeID", "pad"} -> parseInt(v)
      [] field \in {"sketch", "center"} -> Bool(v = TrueText)

\* the body of the for loop: <<key, stringValue>> of a line, <<>> for a skipped one
D2LineEntry(line) ==
    LET parts == Split(line, ":")
    IN  IF line = <<>> \/ Len(parts) # 2
        THEN <<>>
        ELSE <<Trim(parts[1]), Trim(parts[2])>>

parseAndConvertD2Config(c) ==
    LET configLines == Split(getD2ConfigContent(c), NL)
        entries == SelectSeq([k \in 1..Len(configLines) |-> D2LineEntry(configLines[k])],
                             LAMBDA e : e # <<>>)
    IN  [f \in D2Fields |->
            IF HasKey(entries, D2Key(f))
            THEN D2Coerce(f, ValueOf(entries, D2Key(f)))
            ELSE Unset]

convertD2ConfigToConfig(d2Config) ==
    [f \in Fields |->
        CASE f = "layout" ->
                IF ~IsNull(d2Config.layoutEngine)
                   /\ LayoutLookup(ToUpperCase(d2Config.layoutEngine.s)) # Undefined
                THEN LayoutLookup(ToUpperCase(d2Config.layoutEngine.s))
                ELSE Unset
          [] f = "theme" -> IF ~IsNull(d2Config.themeID) THEN d2Config.themeID ELSE Unset
          [] f = "darkTheme" -> IF ~IsNull(d2Config.darkThemeID) THEN d2Config.darkThemeID ELSE Unset
          [] f = "sketch" -> IF ~IsNull(d2Config.sketch) THEN d2Config.sketch ELSE Unset
          [] f = "center" -> IF ~IsNull(d2Config.center) THEN d2Config.center ELSE Unset
          [] f = "pad" -> IF ~IsNull(d2Config.pad) THEN d2Config.pad ELSE Unset
          [] OTHER -> Unset]

AnimateIntervalDefault == 1200

\* the text parseConfig hands to hasComposition
CompositionInput(headerless, cleaned) == headerless

\* the text parseConfig returns
ReturnedCode(headerless, cleaned) == headerless

\* the three spreads of parseConfig
MergedConfig(default, diagram, d2File) == Spread(Spread(default, diagram), d2File)

\* the if after the merge
WithAnimateInterval(merged, composition) ==
    IF IsNull(merged.animateInterval) /\ composition
    THEN [merged EXCEPT !.animateInterval = Num(AnimateIntervalDefault)]
    ELSE merged

\* a plausible slip: Object.assign(defaultConfig, ...) instead of a spread
DefaultAliased(default, merged) == merged

\* defaultConfig after a call: the spread copies it into a new object
DefaultAfterCall(default, merged) == default

(***************************************************************************)
(* The calls.  parseConfig(content, defaultConfig) is entered with the     *)
(* next block, scans it one loop iteration at a time, and returns.         *)
(***************************************************************************)

\* parseConfig is called: parseAndConvertConfig, then the scanner starts on code
ParseConfigEnter ==
    /\ pc \in {"idle", "done"}
    /\ pending # <<>>
    /\ pending' = Tail(pending)
    /\ content' = Head(pending)
    /\ \E parsed \in {parseAndConvertConfig(Head(pending))} :
           /\ diagramConfig' = parsed.config
           /\ code' = parsed.code
    /\ i' = ScanInit.i
    /\ result' = ScanInit.result
    /\ inSingleQuoteString' = ScanInit.inSingleQuoteString
    /\ inDoubleQuoteString' = ScanInit.inDoubleQuoteString
    /\ cleanedCode' = <<>>
    /\ pc' = "scan"
    /\ UNCHANGED <<defaultConfig, installedConfig, rendered>>

\* one iteration of the while loop of removeCommentsFromD2
ScanStep ==
    /\ pc = "scan"
    /\ i < Len(code)
    /\ \E st \in {ScanStepOp(code, [i |-> i, result |-> result,
                                   inSingleQuoteString |-> inSingleQuoteString,
                                   inDoubleQuoteString |-> inDoubleQuoteString])} :
           /\ i' = st.i
           /\ result' = st.result
           /\ inSingleQuoteString' = st.inSingleQuoteString
           /\ inDoubleQuoteString' = st.inDoubleQuoteString
    /\ UNCHANGED <<pending, defaultConfig, installedConfig, pc, content,
                   diagramConfig, code, cleanedCode, rendered>>

\* the loop has ended: the three replace calls, the inline configuration,
\* the merge, the animateInterval rule, the return
ParseConfigReturn ==
    /\ pc = "scan"
    /\ i >= Len(code)
    /\ \E cleaned \in {Normalize(result)} :
       \E d2FileConfig \in {parseAndConvertD2Config(cleaned)} :
       \E d2FileConvertedConfig \in {convertD2ConfigToConfig(d2FileConfig)} :
       \E mergedConfig \in {MergedConfig(defaultConfig, diagramConfig, d2FileConvertedConfig)} :
       \E config \in {WithAnimateInterval(mergedConfig,
                          hasComposition(CompositionInput(code, cleaned)))} :
           /\ cleanedCode' = cleaned
           /\ rendered' = Append(rendered,
                  [config |-> config, code |-> ReturnedCode(code, cleaned)])
           /\ defaultConfig' = DefaultAfterCall(defaultConfig, config)
    /\ pc' = "done"
    /\ UNCHANGED <<pending, installedConfig, content, diagramConfig, code, i,
                   result, inSingleQuoteString, inDoubleQuoteString>>

Next == ParseConfigEnter \/ ScanStep \/ ParseConfigReturn

\* the state after d2(md, defaultConfig), with the blocks of a document to render
InitWith(documents, defaults) ==
    /\ pending \in documents
    /\ defaultConfig \in defaults
    /\ installedConfig = defaultConfig
    /\ pc = "idle"
    /\ content = <<>>
    /\ diagramConfig = EmptyConfig
    /\ code = <<>>
    /\ i = 0
    /\ result = <<>>
    /\ inSingleQuoteString = FALSE
    /\ inDoubleQuoteString = FALSE
    /\ cleanedCode = <<>>
    /\ rendered = <<>>

\* the value the last call returned
out == rendered[Len(rendered)]

(***************************************************************************)
(* The inputs.                                                             *)
(***************************************************************************)

\* the texts made of at most n of the tokens
RECURSIVE Concats(_, _)
Concats(tokens, n) ==
    IF n = 0 THEN {<<>>}
    ELSE LET shorter == Concats(tokens, n - 1)
         IN  shorter \cup {p \o t : p \in shorter, t \in tokens}

\* the documents of 1..n blocks
RECURSIVE Documents(_, _)
Documents(blocks, n) ==
    IF n = 0 THEN {}
    ELSE {<<b>> : b \in blocks}
         \cup {<<b>> \o d : b \in blocks, d \in Documents(blocks, n - 1)}

Defaults ==
    {EmptyConfig,
     [EmptyConfig EXCEPT !.pad = Num(10), !.layout = Str(Chars("elk")),
                         !.stdoutFormat = Str(Chars("svg"))],
     [EmptyConfig EXCEPT !.animateInterval = Num(0), !.theme = Num(4)]}

ConfigHeaders ==
    {<<>>,
     Chars("\"\"\"\n--layout=tala\n--pad=20\n\"\"\"\n"),
     Chars("\"\"\"\n--layout=foo\n--animate-interval 0\n\"\"\"\n"),
     Chars("\"\"\"\n--sketch\n  --target x\n--theme=abc\n\"\"\"\n"),
     Chars("\"\"\"\n--target=a=b\n--stdout-format png\n\"\"\"\n")}

ConfigBodies ==
    {Chars("x -> y"),
     Chars("vars: {\n  d2-config: {\n    pad: 30\n    layout-engine: \"dagre\"\n  }\n}\nx"),
     Chars("Layers: {\n  a\n}"),
     Chars("# steps: {\nx: 'a # b' # c\ny")}

ConfigBlocks == {h \o b : h \in ConfigHeaders, b \in ConfigBodies}

ScanAlphabet == {DQ, SQ, "#", NL, " ", BS, "a"}

ScanSamples ==
    {Chars("x: \"a # b\" # c"),
     Chars("\"a \"\"\" # b\""),
     Chars("'a \"\"\" # b' # c"),
     Chars("a\n  \"\"\" c\n \"\"\"\n  b")}

ScanTexts == Concats({<<c>> : c \in ScanAlphabet}, MaxLen) \cup ScanSamples

HeaderTokens == {TripleQuote, <<NL>>, <<" ">>, <<"x">>, Chars("--pad=5")}

HeaderTexts == Concats(HeaderTokens, MaxHeaderTokens)

CompTokens ==
    {Chars("layers"), Chars("Scenarios"), Chars("STEPS"),
     <<"x">>, <<" ">>, <<":">>, <<"{">>}

CompTexts == Concats(CompTokens, MaxCompTokens)

CommentTokens == {TripleQuote, <<"#">>, <<NL>>, <<"a">>, <<" ">>, <<SQ>>}

CommentTexts == Concats(CommentTokens, MaxCommentTokens)

BlockTokens ==
    {Chars("vars:"), Chars("d2-config:"), <<"{">>, <<"}">>, Chars("pad:5"), <<NL>>}

BlockTexts == Concats(BlockTokens, MaxBlockTokens)

InlineKeys ==
    {Chars("layout-engine"), Chars("theme-id"), Chars("dark-theme-id"),
     Chars("sketch"), Chars("center"), Chars("pad"), Chars("zz")}

InlineValues ==
    {Chars("5"), Chars("\"5\""), Chars("true"), Chars("'true'"),
     Chars("\"tala\""), Chars("'5\"")}

\* the lines of a d2-config block: key: value, and lines that are no such pair
InlineLines ==
    {Chars("    ") \o k \o Chars(": ") \o v \o <<NL>> : k \in InlineKeys, v \in InlineValues}
        \cup {Chars("    pad\n"), Chars("    pad: 1: 2\n"), Chars("    sketch: 'a:b'\n")}

\* a diagram whose vars block holds a d2-config block of at most MaxInlineLines lines
InlineTexts ==
    {Chars("vars: {\n  d2-config: {\n") \o body \o Chars("  }\n}\nx -> y") :
        body \in Concats(InlineLines, MaxInlineLines)}

SeqBlocks ==
    {Chars("steps:{"),
     Chars("\"\"\"\n--pad=20\n\"\"\"\nx"),
     Chars("vars:{d2-config:{theme-id:5}}"),
     Chars("x")}

(***************************************************************************)
(* The specifications.                                                     *)
(***************************************************************************)
Init == InitWith(Documents(ConfigBlocks, 1), Defaults)
Spec == Init /\ [][Next]_vars

ScanInitState == InitWith(Documents(ScanTexts, 1), {EmptyConfig})
ScanSpec == ScanInitState /\ [][Next]_vars

\* the scanner texts and the configuration blocks, with every default
AllInit == InitWith(Documents(ScanTexts \cup ConfigBlocks, 1), Defaults)
AllSpec == AllInit /\ [][Next]_vars

HeaderInit == InitWith(Documents(HeaderTexts, 1), {EmptyConfig})
HeaderSpec == HeaderInit /\ [][Next]_vars

CompInit == InitWith(Documents(CompTexts, 1), {EmptyConfig})
CompSpec == CompInit /\ [][Next]_vars

\* texts of comment delimiters, newlines and code
CommentInit == InitWith(Documents(CommentTexts, 1), {EmptyConfig})
CommentSpec == CommentInit /\ [][Next]_vars

\* texts of block markers, braces and inline configuration lines
BlockInit == InitWith(Documents(BlockTexts, 1), {EmptyConfig})
BlockSpec == BlockInit /\ [][Next]_vars

\* diagrams with an inline d2-config block
InlineInit == InitWith(Documents(InlineTexts, 1), {EmptyConfig})
InlineSpec == InlineInit /\ [][Next]_vars

SeqInit == InitWith(Documents(SeqBlocks, MaxCalls), Defaults)
SeqSpec == SeqInit /\ [][Next]_vars

(***************************************************************************)
(* The claims.                                                             *)
(***************************************************************************)

\* two field values agree: the same value, or both absent (unset or undefined)
SameValue(a, b) == a = b \/ (IsNull(a) /\ IsNull(b))

\* the inline d2-config of the current call, in Config's namespace
InlineConfig == convertD2ConfigToConfig(parseAndConvertD2Config(cleanedCode))

\* the value of field f from the highest-precedence source that sets it:
\* inline d2-config, then directive header, then the caller's default
PrecedenceValue(f) ==
    IF ~IsNull(InlineConfig[f]) THEN InlineConfig[f]
    ELSE IF ~IsNull(diagramConfig[f]) THEN diagramConfig[f]
    ELSE installedConfig[f]

\* C1: every field of the merged configuration holds the value of the
\* highest-precedence source that sets it (inline > directive > default); a
\* source that leaves the field unset, such as a directive whose text matches
\* no enumerator, never replaces a value a lower source set.  (animateInterval
\* is left to the derived rule when no source sets it.)
C1_MergePrecedence ==
    pc = "done" =>
        \A f \in Fields :
            \/ f = "animateInterval" /\ IsNull(PrecedenceValue(f))
            \/ SameValue(out.config[f], PrecedenceValue(f))

\* C2: animateInterval is 1200 exactly when no source sets it and the
\* Composition Detector is true on the comment-stripped code; a keyword that
\* occurs only inside a comment does not trigger it, and a value a source set
\* (0 included) is kept.
C2_AnimateIntervalFromCleanedCode ==
    pc = "done" =>
        SameValue(out.config.animateInterval,
                  IF IsNull(PrecedenceValue("animateInterval")) /\ hasComposition(cleanedCode)
                  THEN Num(AnimateIntervalDefault)
                  ELSE PrecedenceValue("animateInterval"))

\* C3: the code parseConfig returns is the cleaned code: the header-stripped
\* text with its comments removed by removeCommentsFromD2.
C3_ReturnsCleanedCode ==
    pc = "done" => out.code = cleanedCode /\ out.code = removeCommentsFromD2(code)

\* the offsets >= 4 of content at which three double quotes stand
LaterTripleQuotes == {k \in 4..(Len(content) - 3) : OccursAt(content, TripleQuote, k)}

\* the block begins with """ and a newline, and a later """ exists
BeginsWithHeader == StartsWith(content, HeaderOpen) /\ LaterTripleQuotes # {}

\* the block without its header span (up to the first later """), trimmed
WithoutHeader == Trim(Substring(content, SetMin(LaterTripleQuotes) + 3, Len(content)))

\* C4 as stated: a header is recognised exactly when the block begins with
\* """ and a newline and a later """ exists, whatever lies between (an empty
\* header included): then the code is the block without the header span,
\* trimmed; otherwise the directive set is empty and the block is unchanged.
C4_HeaderWhateverContent ==
    pc # "idle" =>
        IF BeginsWithHeader
        THEN code = WithoutHeader
        ELSE code = content /\ diagramConfig = EmptyConfig

\* C4, amended: a header is recognised exactly when the block begins with """
\* and a newline, a later """ exists and at least one character lies between
\* them: then the code is the block without the header span, trimmed (whatever
\* the header content: blank or without any directive); otherwise, an empty
\* header included, the directive set is empty and the block is unchanged.
C4_HeaderNonEmptyContent ==
    pc # "idle" =>
        IF BeginsWithHeader /\ SetMin(LaterTripleQuotes) > 4
        THEN code = WithoutHeader
        ELSE code = content /\ diagramConfig = EmptyConfig

\* a header whose content is not empty and holds no directive was removed
C4_Witness ==
    /\ pc = "done"
    /\ BeginsWithHeader
    /\ SetMin(LaterTripleQuotes) > 4
    /\ diagramConfig = EmptyConfig
    /\ code # content
    /\ code # <<>>

\* first offset >= k that holds whitespace (\s), or the length of s
NextSpace(s, k) == SetMin({j \in k..Len(s) : j = Len(s) \/ IsSpace(At(s, j))})

\* the key of a directive line as the spec splits it: up to the = when the
\* line has one, else up to the first whitespace run
ClaimedKey(line) ==
    LET t == Trim(line)
    IN  IF Includes(t, <<"=">>)
        THEN Trim(Substring(t, 0, IndexOf(t, <<"=">>)))
        ELSE Substring(t, 0, NextSpace(t, 0))

\* the raw value of a directive line as the spec splits it: everything after
\* the =, else everything after the first whitespace run, else "true"
ClaimedValue(line) ==
    LET t == Trim(line)
    IN  IF Includes(t, <<"=">>)
        THEN Trim(Substring(t, IndexOf(t, <<"=">>) + 1, Len(t)))
        ELSE IF NextSpace(t, 0) >= Len(t)
        THEN TrueText
        ELSE Trim(Substring(t, NextSpace(t, 0), Len(t)))

\* C5: for every header line that starts (after blanks) with a two-dash key,
\* the raw value is everything after the =, else everything after the first
\* whitespace run, else "true"; target and directory carry it unmodified, so a
\* value holding = or spaces and an indented line are handled the same way.
C5_RawDirectiveValue ==
    pc # "idle" /\ HeaderParsed(content) =>
        LET lines == Split(Trim(HeaderContent(content)), NL)
        IN  \A f \in {"target", "directory"} :
                LET hits == {k \in 1..Len(lines) :
                                /\ StartsWith(Trim(lines[k]), <<"-", "-">>)
                                /\ ClaimedKey(lines[k]) = DirectiveKey(f)}
                IN  hits # {} =>
                        diagramConfig[f] = Str(ClaimedValue(lines[SetMax(hits)]))

\* C6: removeCommentsFromD2 is idempotent: cleaning the cleaned code again
\* returns it unchanged.
C6_Idempotent ==
    pc = "done" => removeCommentsFromD2(cleanedCode) = cleanedCode

\* the double quote at offset k of s is one of three that stand alone inside
\* the text: a """ with no further double quote on either side
InLoneTriple(s, k) ==
    \E a \in {k - 2, k - 1, k} :
        /\ a >= 2
        /\ OccursAt(s, TripleQuote, a)
        /\ At(s, a - 1) # DQ
        /\ a + 3 < Len(s)
        /\ At(s, a + 3) # DQ

\* the offsets that can close the string a text opens with its first character
ClosingQuotes(s) ==
    {k \in 1..(Len(s) - 1) :
        /\ At(s, k) = At(s, 0)
        /\ ~(At(s, 0) = DQ /\ InLoneTriple(s, k))}

\* s opens with a quoted string, free of backslashes, that holds a # or a """
OpensWithString(s) ==
    /\ At(s, 0) \in {DQ, SQ}
    /\ ClosingQuotes(s) # {}
    /\ LET close == SetMin(ClosingQuotes(s))
           body == Substring(s, 1, close)
       IN  /\ ~Includes(body, <<BS>>)
           /\ Includes(body, <<"#">>) \/ Includes(body, TripleQuote)

\* C7: when a # or a """ lies between the opening and the closing quote of a
\* string, the scanner emits the string unchanged, treats nothing in it as a
\* comment start, and is outside any string right after the closing quote.
C7_StringContentsPreserved ==
    pc = "scan" /\ OpensWithString(code) =>
        LET close == SetMin(ClosingQuotes(code))
        IN  /\ i > close =>
                /\ Len(result) > close
                /\ SubSeq(result, 1, close + 1) = SubSeq(code, 1, close + 1)
            /\ i = close + 1 => ~inSingleQuoteString /\ ~inDoubleQuoteString

\* C8: every step of a running call of parseConfig either is an iteration of
\* the scanner loop that strictly advances the read position, never past the
\* end of the text (the unterminated-delimiter fallback included), or is the
\* return of the call with its result: the position is bounded by the length
\* of the text, so every call returns, whatever the text and the default.
C8_AdvancesAndReturns ==
    [][pc = "scan" =>
          \/ pc' = "scan" /\ code' = code /\ i < i' /\ i' <= Len(code)
          \/ pc' = "done" /\ i >= Len(code) /\ Len(rendered') = Len(rendered) + 1]_vars

\* a call returned for a text whose first """ is never closed
C8_Witness ==
    /\ pc = "done"
    /\ Len(rendered) = 1
    /\ OccursAt(code, TripleQuote, 0)
    /\ FindClosing(code, 3) = -1
    /\ i = Len(code)

\* C9: no call modifies defaultConfig, and every field a call returns comes
\* from the configuration d2 was installed with or from the call's own block
\* (its directive header, its inline d2-config, or the 1200 derived from its
\* own composition keyword): nothing an earlier block derived or set shows up
\* in a later block's configuration.
C9_CallsAreIndependent ==
    /\ defaultConfig = installedConfig
    /\ pc = "done" =>
          \A f \in Fields :
              \/ out.config[f] \in {installedConfig[f], diagramConfig[f], InlineConfig[f]}
              \/ /\ f = "animateInterval"
                 /\ out.config[f] = Num(AnimateIntervalDefault)
                 /\ hasComposition(code)

\* the first block got the derived 1200, the second block has no animateInterval
C9_Witness ==
    /\ Len(rendered) = 2
    /\ pc = "done"
    /\ rendered[1].config.animateInterval = Num(AnimateIntervalDefault)
    /\ IsNull(rendered[2].config.animateInterval)

\* a composition keyword stands at offset k of s, in any case, followed by
\* optional whitespace, a colon, optional whitespace and an opening brace
KeywordOccursAt(s, k) ==
    \E kw \in CompositionKeywords :
        /\ ToUpperCase(Substring(s, k, k + Len(kw))) = ToUpperCase(kw)
        /\ \E colon \in (k + Len(kw))..(Len(s) - 1) :
              /\ At(s, colon) = ":"
              /\ \A j \in (k + Len(kw))..(colon - 1) : IsSpace(At(s, j))
              /\ \E brace \in (colon + 1)..(Len(s) - 1) :
                    /\ At(s, brace) = "{"
                    /\ \A j \in (colon + 1)..(brace - 1) : IsSpace(At(s, j))

\* C10 as stated: hasComposition(code) is true iff code contains one of the
\* keywords, in any case, followed by optional whitespace, a colon, optional
\* whitespace and an opening brace.
C10_ContainsKeyword ==
    pc = "done" =>
        (hasComposition(code) <=> \E k \in 0..(Len(code) - 1) : KeywordOccursAt(code, k))

\* C10, amended: hasComposition(code) is true iff such an occurrence starts at
\* a word boundary: at the start of the text or after a character that is not
\* a letter, a digit or an underscore.
C10_KeywordAtWordBoundary ==
    pc = "done" =>
        (hasComposition(code) <=>
            \E k \in 0..(Len(code) - 1) :
                /\ KeywordOccursAt(code, k)
                /\ k = 0 \/ At(code, k - 1) \notin WordChars)

\* a text with whitespace around the colon was detected, and the call that
\* detected it derived the animateInterval
C10_Witness ==
    /\ pc = "done"
    /\ hasComposition(code)
    /\ Includes(code, <<" ", ":">>)
    /\ out.config.animateInterval = Num(AnimateIntervalDefault)


\* the scanner stands, outside any quote state, on a """ that no later """ closes
AtUnterminatedOpener ==
    /\ pc = "scan"
    /\ i < Len(code)
    /\ ~inSingleQuoteString
    /\ ~inDoubleQuoteString
    /\ OccursAt(code, TripleQuote, i)
    /\ FindClosing(code, i + 3) = -1

\* C11: on a """ met outside any quote state that no later """ closes, the
\* scanner appends the three double quotes to the output and resumes right
\* after them: the opener is neither dropped nor shortened.
C11_UnterminatedOpenerKept ==
    [][AtUnterminatedOpener =>
          /\ result' = result \o TripleQuote
          /\ i' = i + 3]_vars


\* something other than whitespace stands on the line of offset k, before k
PrecededByCode(s, k) == Trim(Substring(s, PrevNewlinePos(s, k) + 1, k)) # <<>>

\* the scanner stands outside any quote state
OutsideQuotes == pc = "scan" /\ i < Len(code) /\ ~inSingleQuoteString /\ ~inDoubleQuoteString

\* the scanner stands on a # comment that follows code on its line
AtInlineHash == OutsideQuotes /\ At(code, i) = "#" /\ PrecededByCode(code, i)

\* the scanner stands on a closed """ comment that follows code on its line
AtInlineBlock ==
    /\ OutsideQuotes
    /\ OccursAt(code, TripleQuote, i)
    /\ FindClosing(code, i + 3) # -1
    /\ PrecededByCode(code, i)

\* the step removes the comment that ends just before offset e: when a newline
\* stands at e it is kept in the output and the scanner resumes after it
KeepsNewlineAt(e) ==
    IF e < Len(code) /\ At(code, e) = NL
    THEN result' = result \o <<NL>> /\ i' = e + 1
    ELSE result' = result /\ i' = e

\* C12: removing an inline comment of either kind, a # comment after code on
\* its line or a """ comment preceded by non-whitespace on its line, deletes
\* the comment text only: the newline that follows the comment is kept, so the
\* line before and the line after stay separate lines.
C12_InlineCommentKeepsNewline ==
    [][/\ AtInlineHash => KeepsNewlineAt(SkipToNewline(code, i))
       /\ AtInlineBlock => KeepsNewlineAt(FindClosing(code, i + 3) + 3)]_vars

\* the # half of C12 alone
InlineHashKeepsNewline ==
    [][AtInlineHash => KeepsNewlineAt(SkipToNewline(code, i))]_vars


\* the number of backslashes that stand in a row just before offset k
BackslashRun(s, k) ==
    k - SetMin({j \in 0..k : \A m \in j..(k - 1) : At(s, m) = BS})

\* the scanner stands on a quote that can open or close a string: a double
\* quote that is no part of a """ outside a single-quoted string, or a single
\* quote outside a double-quoted string
AtStringQuote ==
    /\ pc = "scan"
    /\ i < Len(code)
    /\ \/ IsPlainDoubleQuote(code, i) /\ ~inSingleQuoteString
       \/ At(code, i) = SQ /\ ~inDoubleQuoteString

\* the step copies the quote and flips the state of the quote's kind
TogglesQuoteState ==
    IF At(code, i) = DQ
    THEN /\ inDoubleQuoteString' = ~inDoubleQuoteString
         /\ inSingleQuoteString' = inSingleQuoteString
    ELSE /\ inSingleQuoteString' = ~inSingleQuoteString
         /\ inDoubleQuoteString' = inDoubleQuoteString

\* C13: a quote leaves the quote state unchanged exactly when an unescaped
\* backslash precedes it, that is when the backslashes just before it are odd
\* in number; after an even number (an escaped backslash, or none) the quote
\* toggles the state like an ordinary quote.
C13_EscapeParity ==
    [][AtStringQuote =>
          IF BackslashRun(code, i) % 2 = 1
          THEN UNCHANGED <<inSingleQuoteString, inDoubleQuoteString>>
          ELSE TogglesQuoteState]_vars


\* how many of the offsets a..b of s hold the character c
CountOf(s, c, a, b) == Cardinality({j \in a..b : At(s, j) = c})

\* the offset of the } that closes the { at offset open: the first } after it
\* up to which as many braces were closed as opened; -1 when there is none
MatchingClose(s, open) ==
    LET closes == {c \in (open + 1)..(Len(s) - 1) :
                      /\ At(s, c) = "}"
                      /\ CountOf(s, "{", open, c) = CountOf(s, "}", open, c)}
    IN  IF closes = {} THEN -1 ELSE SetMin(closes)

\* the bounds the contract of findBlockBounds asks for
ClaimedBounds(s, startIndex) ==
    LET open == IndexOfFrom(s, <<"{">>, startIndex)
    IN  IF open = -1 \/ MatchingClose(s, open) = -1
        THEN [start |-> -1, end |-> -1]
        ELSE [start |-> open + 1, end |-> MatchingClose(s, open)]

\* a result of findBlockBounds that its caller takes for "not found"
NotFound(b) == b.start = -1 \/ b.end = -1

\* C14: for every text and start offset findBlockBounds returns the span
\* strictly between the first { at or after the offset and the } that closes
\* it, a } standing before that first { notwithstanding; it answers "not
\* found" only when there is no such { or it is never closed.
C14_BoundsOfFirstBlock ==
    pc = "done" =>
        \A startIndex \in 0..Len(cleanedCode) :
            LET claimed == ClaimedBounds(cleanedCode, startIndex)
                found == findBlockBounds(cleanedCode, startIndex)
            IN  IF NotFound(claimed) THEN NotFound(found) ELSE found = claimed

\* C14 on the texts in which no } stands between the start offset and the
\* first { after it
BoundsWithoutStrayClose ==
    pc = "done" =>
        \A startIndex \in 0..Len(cleanedCode) :
            LET claimed == ClaimedBounds(cleanedCode, startIndex)
                found == findBlockBounds(cleanedCode, startIndex)
                open == IndexOfFrom(cleanedCode, <<"{">>, startIndex)
            IN  (open # -1 /\ CountOf(cleanedCode, "}", startIndex, open) = 0) =>
                    IF NotFound(claimed) THEN NotFound(found) ELSE found = claimed


\* the lines of the d2-config block of the cleaned code
InlineBlockLines == Split(getD2ConfigContent(cleanedCode), NL)

\* the line has exactly one colon
HasOneColon(line) == CountOf(line, ":", 0, Len(line) - 1) = 1

\* the key and the value of a line with one colon, both trimmed
InlineKeyOf(line) == Trim(Substring(line, 0, IndexOf(line, <<":">>)))
InlineValueOf(line) == Trim(Substring(line, IndexOf(line, <<":">>) + 1, Len(line)))

\* the coercion of a value into a field of D2Config, its quotes stripped first
CoerceUnquoted(field, v) ==
    CASE field = "layoutEngine" -> Str(stripQuotes(v))
      [] field \in {"themeID", "darkThemeID", "pad"} -> parseInt(stripQuotes(v))
      [] field \in {"sketch", "center"} -> Bool(stripQuotes(v) = TrueText)

\* the lines of the block that set the field: one colon, and the field's key
LinesSetting(field) ==
    {k \in 1..Len(InlineBlockLines) :
        /\ HasOneColon(InlineBlockLines[k])
        /\ InlineKeyOf(InlineBlockLines[k]) = D2Key(field)}

\* C15: every field of the inline configuration holds the value of the last
\* line of the d2-config block that has exactly one colon and the field's key,
\* coerced after its surrounding matching single or double quotes were
\* stripped; a field no such line names is not set (lines with no colon, with
\* more than one colon or with an unrecognised key set nothing).
C15_InlineValuesUnquoted ==
    pc = "done" =>
        \A f \in D2Fields :
            parseAndConvertD2Config(cleanedCode)[f] =
                IF LinesSetting(f) = {}
                THEN Unset
                ELSE CoerceUnquoted(f, InlineValueOf(InlineBlockLines[SetMax(LinesSetting(f))]))

\* C15 with the quotes stripped for layout-engine only, as D2Coerce does
InlineValuesAsCoerced ==
    pc = "done" =>
        \A f \in D2Fields :
            parseAndConvertD2Config(cleanedCode)[f] =
                IF LinesSetting(f) = {}
                THEN Unset
                ELSE D2Coerce(f, InlineValueOf(InlineBlockLines[SetMax(LinesSetting(f))]))

=============================================================================
